---- MODULE Spec2Model ----
(***************************************************************************)
(* Model of the prediction-serving and model-lifecycle core of             *)
(* src/system-architecture.py: CacheManager, ModelUpdateManager and its    *)
(* scheduler loop.                                                         *)
(*                                                                         *)
(* Conventions.                                                            *)
(*  - One action is one run of a coroutine from one suspension point       *)
(*    (await) to the next; asyncio runs such a stretch without             *)
(*    interleaving.  Every awaited collaborator may suspend and may raise. *)
(*  - Wall-clock time is counted in ticks, TicksPerHour ticks to the hour. *)
(*  - Metrics are exact decimals counted in thousandths (0.02 is 20) and   *)
(*    the model version is counted in tenths (1.0 is 10, the step 0.1 is   *)
(*    1); binary floating-point rounding is not represented.               *)
(*  - The collaborators that src/ calls but does not define                *)
(*    (collect_new_training_data, evaluate_current_models,                 *)
(*    train_new_models, evaluate_models, deploy_new_models) are external:  *)
(*    their results are drawn from small sets.  json is taken to be the    *)
(*    standard library module (the file uses it without importing it).     *)
(***************************************************************************)
EXTENDS Integers, Sequences, FiniteSets, TLC

\* ------------------------------------------------------------------ bounds
NumManagers == 2
NumCallers == 2
MaxCycles == 3
TicksPerHour == 2
MaxHours == 30
CacheTicksPerHour == 1
CacheHours == 8
MaxWrites == 2
NumRequests == 2

\* ------------------------------------------------------- program constants
InitialVersion == 10
VersionStep == 1
improvement_threshold == 20
TriggerHour == 3
SleepSeconds == 3600
SecondsPerHour == 3600
HoursPerDay == 24
FreshHours == 6
TTLHours == 6
CycleLimitHours == 23
confidence_min == 60
probability_sum_max == 110
max_goals == 10

\* The scheduler loop is task 0; tasks 1..NumCallers call update_models
\* directly.  Manager 1 is the one the startup hook schedules; the others
\* are those a PredictionManager constructs.
Sched == 0
Callers == 1..NumCallers
Tasks == {Sched} \cup Callers
Managers == 1..NumManagers
AppManager == 1

NoMetrics == [accuracy |-> -1, rmse |-> -1, log_loss |-> -1]
NoModels == 0
NoPair == <<NoModels, 0>>
NoExit == <<-1, "none", 0>>
NoWakes == [first |-> -1, last |-> -1, starts |-> <<>>]

VARIABLES
    now,                    \* wall clock, in ticks
    current_model_version,  \* per manager, in tenths
    models,                 \* per manager: the active models (0: the initial ones,
                            \*   c: the c-th candidate trained)
    update_lock,            \* per manager: [locked, waiters, woken]
    pc,                     \* per task: where the coroutine is suspended
    mgr,                    \* per task: the manager update_models runs on
    ntrained,               \* number of candidates trained so far
    current_metrics,        \* per task: local of update_models
    new_models,             \* per task: local of update_models
    new_metrics,            \* per task: local of update_models
    wake_at,                \* scheduler: when its sleep ends
    wake_log,               \* scheduler: first and last wake, and the times it started a cycle
    ncycles,                \* number of cycles started so far
    last_exit,              \* the cycle that ended last: <<task, how, manager>>
    pre,                    \* per task: registry pair seen when the cycle took the lock
    decision,               \* per task: what should_update_models said in this cycle
    promotions,             \* per manager: cycles that completed a promotion
    eval_in,                \* should_update_models on its own: the two arguments
    eval_out,               \* ... and what it returned ("none" before the call)
    redis,                  \* the Redis database: per key an entry or NoEntry
    got,                    \* the call of get_cached_prediction just made
    written,                \* per key: the last cache_prediction (payload, time)
    nwrites,                \* number of cache_prediction calls so far
    val_in,                 \* validate_prediction on its own: the argument
    val_out,                \* ... and what it returned
    req,                    \* per request of get_prediction: where it stands
    returned,               \* the get_prediction that returned last: <<request, value>>
    produced,               \* what generate_prediction had handed to that request
    deployment,             \* deploy_new_version: position, calls completed, rollbacks
    restoration             \* restore_from_backup: position, calls completed, recoveries

evalVars == <<eval_in, eval_out>>
cacheVars == <<redis, got, written, nwrites>>
valVars == <<val_in, val_out>>
reqVars == <<req, returned, produced>>
opsVars == <<deployment, restoration>>
otherVars == <<evalVars, cacheVars, valVars, reqVars, opsVars>>
updVars == <<current_model_version, models, update_lock, pc, mgr, ntrained,
             current_metrics, new_models, new_metrics, wake_at, wake_log, ncycles, last_exit, pre,
             decision, promotions>>
vars == <<now, updVars, otherVars>>

\* ----------------------------------------------------------- pure functions

\* datetime.now().hour
Hour(t) == (t \div TicksPerHour) % HoursPerDay

MaxTime == MaxHours * TicksPerHour

\* The log after a wake at time t that started a cycle or did not.
Logged(log, t, started) ==
    [first  |-> IF log.first = -1 THEN t ELSE log.first,
     last   |-> t,
     starts |-> IF started THEN Append(log.starts, t) ELSE log.starts]

\* A sleep of twice the time.
SleepTicksDoubled == (2 * SleepSeconds * TicksPerHour) \div SecondsPerHour

\* A sleep of half the time.
SleepTicksHalved == ((SleepSeconds \div 2) * TicksPerHour) \div SecondsPerHour

\* asyncio.sleep(3600), in ticks
SleepTicks == (SleepSeconds * TicksPerHour) \div SecondsPerHour

NextVersionTwice(v) == v + 2 * VersionStep

\* self.current_model_version += 0.1
NextVersion(v) == v + VersionStep

MetricsComparison(cur, new) ==
    [accuracy |-> new.accuracy - cur.accuracy,
     rmse     |-> cur.rmse - new.rmse,
     log_loss |-> cur.log_loss - new.log_loss]

should_update_models_or_equal(cur, new) ==
    LET cmp == MetricsComparison(cur, new)
    IN \A k \in DOMAIN cmp : cmp[k] >= improvement_threshold

should_update_models(cur, new) ==
    LET cmp == MetricsComparison(cur, new)
    IN \A k \in DOMAIN cmp : cmp[k] > improvement_threshold

\* What the external evaluators may return in a cycle.
CurrentMetricsSet == {[accuracy |-> 700, rmse |-> 1000, log_loss |-> 500]}
NewMetricsSet ==
    {[accuracy |-> 730, rmse |-> 950, log_loss |-> 470],
     [accuracy |-> 720, rmse |-> 950, log_loss |-> 470],
     [accuracy |-> 760, rmse |-> 1010, log_loss |-> 400]}

\* ------------------------------------------------------------ CacheManager
\* In the cache specification the clock `now` counts CacheTicksPerHour ticks
\* to the hour.

Keys == {"M1", "M2"}
Payloads == {"p1", "p2"}
\* Ticks that may pass between datetime.now() and Redis taking the SETEX.
SetDelays == {0, 1}

None == [kind |-> "None"]
NoEntry == [kind |-> "nil"]
NoGot == [kind |-> "nocall"]
NoWrite == [kind |-> "never"]

FreshTicks == FreshHours * CacheTicksPerHour
TTLTicks == TTLHours * CacheTicksPerHour
CacheMaxTime == CacheHours * CacheTicksPerHour

\* datetime.isoformat and datetime.fromisoformat
IsoFormat(t) == <<"iso", t>>
FromIsoFormat(s) == s[2]

\* json.dumps and json.loads of a prediction dict
Dumps(d) == [kind |-> "json", text |-> <<d.payload, d.timestamp>>]
Loads(j) == [kind |-> "dict", payload |-> j.text[1], timestamp |-> j.text[2]]

\* redis GET: the value, or nil for a key that was never set or has expired
RedisGet(db, k, t) ==
    IF db[k] /= NoEntry /\ t < db[k].expire_at THEN db[k].value ELSE NoEntry

RedisSetExIfAbsent(db, k, ttl, v, t) ==
    IF db[k] /= NoEntry /\ t < db[k].expire_at
    THEN db
    ELSE [db EXCEPT ![k] = [kind |-> "entry", value |-> v, expire_at |-> t + ttl]]

\* redis SETEX at time t
RedisSetEx(db, k, ttl, v, t) ==
    [db EXCEPT ![k] = [kind |-> "entry", value |-> v, expire_at |-> t + ttl]]

IsFreshOrJustStale(prediction, t) ==
    FromIsoFormat(prediction.timestamp) >= t - FreshTicks

\* the freshness test of get_cached_prediction
IsFresh(prediction, t) ==
    FromIsoFormat(prediction.timestamp) > t - FreshTicks

GetResult(db, k, t) ==
    LET cached_data == RedisGet(db, k, t)
    IN IF cached_data /= NoEntry
       THEN LET prediction == Loads(cached_data)
            IN IF IsFresh(prediction, t) THEN prediction ELSE None
       ELSE None

get_cached_prediction_evicting(k) ==
    /\ got' = [kind |-> "call", key |-> k, at |-> now, result |-> GetResult(redis, k, now)]
    /\ redis' = IF GetResult(redis, k, now) = None
                THEN [redis EXCEPT ![k] = NoEntry] ELSE redis
    /\ UNCHANGED <<now, updVars, opsVars, evalVars, valVars, reqVars, written, nwrites>>

get_cached_prediction(k) ==
    /\ got' = [kind |-> "call", key |-> k, at |-> now, result |-> GetResult(redis, k, now)]
    /\ UNCHANGED <<now, updVars, opsVars, evalVars, valVars, reqVars, redis, written, nwrites>>

\* The dict after prediction['timestamp'] = datetime.now().isoformat()
Stamped(p, t) == [kind |-> "dict", payload |-> p, timestamp |-> IsoFormat(t)]

\* A cache_prediction that would store the entry for one hour only.
CacheWriteOneHour(k, p, d) ==
    /\ now + d <= CacheMaxTime
    /\ now' = now + d
    /\ redis' = RedisSetEx(redis, k, CacheTicksPerHour, Dumps(Stamped(p, now)), now + d)
    /\ written' = [written EXCEPT ![k] = [kind |-> "write", payload |-> p,
                                           createdAt |-> now]]
    /\ nwrites' = nwrites + 1

\* The body of cache_prediction; d ticks pass before Redis takes the SETEX.
CacheWrite(k, p, d) ==
    /\ now + d <= CacheMaxTime
    /\ now' = now + d
    /\ redis' = RedisSetEx(redis, k, TTLTicks, Dumps(Stamped(p, now)), now + d)
    /\ written' = [written EXCEPT ![k] = [kind |-> "write", payload |-> p,
                                           createdAt |-> now]]
    /\ nwrites' = nwrites + 1

\* cache_prediction stamps the dict with the time of the call and stores its
\* JSON under the key with a Redis expiry of six hours.
cache_prediction(k, p) ==
    /\ nwrites < MaxWrites
    /\ \E d \in SetDelays : CacheWrite(k, p, d)
    /\ got' = NoGot
    /\ UNCHANGED <<updVars, opsVars, evalVars, valVars, reqVars>>

\* Redis drops an entry whose expiry has passed.
RedisExpire(k) ==
    /\ redis[k] /= NoEntry
    /\ now >= redis[k].expire_at
    /\ redis' = [redis EXCEPT ![k] = NoEntry]
    /\ got' = NoGot
    /\ UNCHANGED <<now, updVars, opsVars, evalVars, valVars, reqVars, written, nwrites>>

CacheTick ==
    /\ now < CacheMaxTime
    /\ now' = now + 1
    /\ got' = NoGot
    /\ UNCHANGED <<updVars, opsVars, evalVars, valVars, reqVars, redis, written, nwrites>>

\* ------------------------------------------------------ PredictionValidator
\* Confidence and probabilities are in hundredths.

required_features ==
    {"team_form", "historical_performance", "player_statistics", "weather_conditions"}

\* sum(d.values())
RECURSIVE SumValues(_)
SumValues(d) ==
    IF DOMAIN d = {} THEN 0
    ELSE LET k == CHOOSE j \in DOMAIN d : TRUE
         IN d[k] + SumValues([j \in DOMAIN d \ {k} |-> d[j]])

validate_input_features_without_weather(features) ==
    \A feature \in required_features \ {"weather_conditions"} : feature \in features

\* features stands for the keys of the dict
validate_input_features(features) ==
    \A feature \in required_features : feature \in features

validate_prediction_scores_before_probabilities(prediction) ==
    IF prediction.confidence < confidence_min
    THEN <<FALSE, "Confiance insuffisante">>
    ELSE IF prediction.home_score > max_goals \/ prediction.away_score > max_goals
    THEN <<FALSE, "Scores prédits anormalement élevés">>
    ELSE IF SumValues(prediction.probabilities) > probability_sum_max
    THEN <<FALSE, "Probabilités incohérentes">>
    ELSE IF ~validate_input_features(prediction.features)
    THEN <<FALSE, "Données d'entrée invalides ou incomplètes">>
    ELSE <<TRUE, "Prédiction valide">>

validate_prediction(prediction) ==
    IF prediction.confidence < confidence_min
    THEN <<FALSE, "Confiance insuffisante">>
    ELSE IF SumValues(prediction.probabilities) > probability_sum_max
    THEN <<FALSE, "Probabilités incohérentes">>
    ELSE IF prediction.home_score > max_goals \/ prediction.away_score > max_goals
    THEN <<FALSE, "Scores prédits anormalement élevés">>
    ELSE IF ~validate_input_features(prediction.features)
    THEN <<FALSE, "Données d'entrée invalides ou incomplètes">>
    ELSE <<TRUE, "Prédiction valide">>

\* The predictions the validator is applied to: each field below, at and
\* above its threshold.
Confidences == {59, 60, 80}
ProbabilityDicts ==
    {[home |-> 45, draw |-> 30, away |-> 30],
     [home |-> 50, draw |-> 30, away |-> 30],
     [home |-> 51, draw |-> 30, away |-> 30]}
Scores == {2, 10, 11}
FeatureDicts ==
    {required_features,
     required_features \cup {"referee"},
     required_features \ {"weather_conditions"},
     required_features \ {"team_form"},
     {}}
Predictions ==
    [confidence : Confidences, probabilities : ProbabilityDicts,
     home_score : Scores, away_score : Scores, features : FeatureDicts]

NoPrediction ==
    [confidence |-> 0, probabilities |-> [home |-> 0, draw |-> 0, away |-> 0],
     home_score |-> 0, away_score |-> 0, features |-> {}]
NoOutcome == <<FALSE, "">>

\* validate_prediction applied to the drawn prediction.
Validate ==
    /\ val_out = NoOutcome
    /\ val_out' = validate_prediction(val_in)
    /\ UNCHANGED <<now, updVars, opsVars, evalVars, cacheVars, val_in, reqVars>>

\* -------------------------------------------------------- PredictionManager
\* Every request constructs its own PredictionManager; their CacheManagers
\* talk to the same Redis database.
Requests == 1..NumRequests

\* What generate_prediction may return: two predictions that pass the
\* validator and two that do not.
GoodPrediction ==
    [confidence |-> 80, probabilities |-> [home |-> 45, draw |-> 30, away |-> 30],
     home_score |-> 2, away_score |-> 2, features |-> required_features]
Generated ==
    {GoodPrediction,
     [GoodPrediction EXCEPT !.confidence = 60, !.home_score = 10],
     [GoodPrediction EXCEPT !.confidence = 59],
     [GoodPrediction EXCEPT !.features = required_features \ {"weather_conditions"}]}

NoResponse == [kind |-> "none"]
NoRequest ==
    [pc |-> "new", key |-> "", hit |-> FALSE, engine |-> 0, validated |-> 0, wrote |-> 0]
NoReturn == <<0, NoResponse>>

\* The dict generate_prediction returns: the fields of p and no other key.
Produced(p) == [kind |-> "dict", payload |-> p]

get_fallback_prediction ==
    [kind |-> "fallback", home_score |-> None, away_score |-> None, confidence |-> 0,
     message |-> "Prédiction impossible - données insuffisantes"]

\* Requests are numbered in the order they start, and match ids are
\* interchangeable: the first request's is taken to be this one.
FirstKey == "M1"

\* A get_prediction that would store a hit anew before returning it.
LookupRefreshing(r, k) ==
    /\ req[r].pc = "new"
    /\ \A q \in Requests : q < r => req[q].pc /= "new"
    /\ r = 1 => k = FirstKey
    /\ LET cached_prediction == GetResult(redis, k, now)
       IN IF cached_prediction /= None
          THEN /\ req' = [req EXCEPT ![r] = [@ EXCEPT !.pc = "done", !.key = k,
                                                      !.hit = TRUE, !.wrote = 1]]
               /\ returned' = <<r, Stamped(cached_prediction.payload, now)>>
               /\ produced' = NoResponse
               /\ CacheWrite(k, cached_prediction.payload, 0)
          ELSE /\ req' = [req EXCEPT ![r] = [@ EXCEPT !.pc = "engine", !.key = k,
                                                      !.engine = 1]]
               /\ returned' = returned
               /\ produced' = produced
               /\ UNCHANGED <<now, redis, written, nwrites>>
    /\ UNCHANGED <<updVars, opsVars, evalVars, valVars, got>>

\* get_prediction up to its first suspension: the cache is asked; a hit is
\* returned, on a miss generate_prediction is awaited.
Lookup(r, k) ==
    /\ req[r].pc = "new"
    /\ \A q \in Requests : q < r => req[q].pc /= "new"
    /\ r = 1 => k = FirstKey
    /\ LET cached_prediction == GetResult(redis, k, now)
       IN IF cached_prediction /= None
          THEN /\ req' = [req EXCEPT ![r] = [@ EXCEPT !.pc = "done", !.key = k,
                                                      !.hit = TRUE]]
               /\ returned' = <<r, cached_prediction>>
               /\ produced' = NoResponse
          ELSE /\ req' = [req EXCEPT ![r] = [@ EXCEPT !.pc = "engine", !.key = k,
                                                      !.engine = 1]]
               /\ returned' = returned
               /\ produced' = produced
    /\ UNCHANGED <<now, updVars, opsVars, evalVars, valVars, cacheVars>>

\* A get_prediction that would cache what the engine returned before
\* validating it.
EngineReturnedCachingFirst(r, p) ==
    /\ req[r].pc = "engine"
    /\ \E d \in SetDelays : CacheWrite(req[r].key, p, d)
    /\ IF ~validate_prediction(p)[1]
       THEN /\ req' = [req EXCEPT ![r] = [@ EXCEPT !.pc = "done", !.validated = 1,
                                                   !.wrote = 1]]
            /\ returned' = <<r, get_fallback_prediction>>
       ELSE /\ req' = [req EXCEPT ![r] = [@ EXCEPT !.pc = "done", !.validated = 1,
                                                   !.wrote = 1]]
            /\ returned' = <<r, Stamped(p, now)>>
    /\ produced' = Produced(p)
    /\ UNCHANGED <<updVars, opsVars, evalVars, valVars, got>>

\* generate_prediction returned p: it is validated; a rejected one is
\* answered by the fallback, an accepted one is cached and returned.
EngineReturned(r, p) ==
    /\ req[r].pc = "engine"
    /\ IF ~validate_prediction(p)[1]
       THEN /\ req' = [req EXCEPT ![r] = [@ EXCEPT !.pc = "done", !.validated = 1]]
            /\ returned' = <<r, get_fallback_prediction>>
            /\ UNCHANGED <<now, redis, written, nwrites>>
       ELSE /\ \E d \in SetDelays : CacheWrite(req[r].key, p, d)
            /\ req' = [req EXCEPT ![r] = [@ EXCEPT !.pc = "done", !.validated = 1,
                                                   !.wrote = 1]]
            /\ returned' = <<r, Stamped(p, now)>>
    /\ produced' = Produced(p)
    /\ UNCHANGED <<updVars, opsVars, evalVars, valVars, got>>

\* A get_prediction that would call the engine a second time after a failure.
EngineRaisedRetries(r) ==
    /\ req[r].pc = "engine"
    /\ req' = [req EXCEPT ![r] =
                 IF @.engine = 1 THEN [@ EXCEPT !.engine = 2]
                 ELSE [@ EXCEPT !.pc = "raised"]]
    /\ UNCHANGED <<now, updVars, opsVars, evalVars, valVars, cacheVars, returned, produced>>

\* generate_prediction raised: nothing in get_prediction catches it.
EngineRaised(r) ==
    /\ req[r].pc = "engine"
    /\ req' = [req EXCEPT ![r] = [@ EXCEPT !.pc = "raised"]]
    /\ UNCHANGED <<now, updVars, opsVars, evalVars, valVars, cacheVars, returned, produced>>

\* ------------------------------------------------------------ asyncio.Lock

FreeLock == [locked |-> FALSE, waiters |-> <<>>, woken |-> FALSE]

\* Lock.acquire without waiting: the lock is free and nobody queues for it.
CanTakeIgnoringHolder(l) == l.waiters = <<>>

CanTake(l) == ~l.locked /\ l.waiters = <<>>

ReleasedNever(l) == l

\* Lock.release: unlock and complete the future of the first waiter.
Released(l) == [locked |-> FALSE, waiters |-> l.waiters, woken |-> l.waiters /= <<>>]

InCycle == {"collect", "eval_current", "train", "eval_new", "deploy", "deployed"}

\* ---------------------------------------------------------------- actions

\* A caller invokes update_models on manager m: "async with self.update_lock".
\* Either the lock is taken at once, or the task queues behind the holder.
Enter(t, m) ==
    /\ ncycles < MaxCycles
    /\ ncycles' = ncycles + 1
    /\ mgr' = [mgr EXCEPT ![t] = m]
    /\ ntrained' = ntrained
    /\ decision' = [decision EXCEPT ![t] = "none"]
    /\ current_metrics' = [current_metrics EXCEPT ![t] = NoMetrics]
    /\ new_models' = [new_models EXCEPT ![t] = NoModels]
    /\ new_metrics' = [new_metrics EXCEPT ![t] = NoMetrics]
    /\ IF CanTake(update_lock[m])
       THEN /\ update_lock' = [update_lock EXCEPT ![m].locked = TRUE]
            /\ pc' = [pc EXCEPT ![t] = "collect"]
            /\ pre' = [pre EXCEPT ![t] = <<models[m], current_model_version[m]>>]
       ELSE /\ update_lock' = [update_lock EXCEPT ![m].waiters = Append(@, t)]
            /\ pc' = [pc EXCEPT ![t] = "lock"]
            /\ pre' = pre

Call(t, m) ==
    /\ pc[t] = "idle"
    /\ Enter(t, m)
    /\ UNCHANGED <<otherVars, now, current_model_version, models, wake_at, wake_log, promotions,
                   last_exit>>

\* A queued task whose future was completed resumes and takes the lock.
Resume(t) ==
    /\ pc[t] = "lock"
    /\ LET m == mgr[t] l == update_lock[m]
       IN /\ l.woken /\ Head(l.waiters) = t
          /\ update_lock' = [update_lock EXCEPT
                               ![m] = [locked |-> TRUE, waiters |-> Tail(l.waiters),
                                       woken |-> FALSE]]
          /\ pre' = [pre EXCEPT ![t] = <<models[m], current_model_version[m]>>]
    /\ pc' = [pc EXCEPT ![t] = "collect"]
    /\ UNCHANGED <<otherVars, now, current_model_version, models, mgr, ntrained, current_metrics,
                   new_models, new_metrics, wake_at, wake_log, ncycles, last_exit, decision, promotions>>

\* Leaving "async with": the lock is released; update_models returns None to
\* its caller.  The scheduler goes straight on to asyncio.sleep(3600).
Leave(t, how) ==
    /\ update_lock' = [update_lock EXCEPT ![mgr[t]] = Released(@)]
    /\ last_exit' = <<t, how, mgr[t]>>
    /\ promotions' = [promotions EXCEPT
                        ![mgr[t]] = IF how = "promoted" THEN @ + 1 ELSE @]
    /\ ntrained' = ntrained
    /\ current_metrics' = [current_metrics EXCEPT ![t] = NoMetrics]
    /\ new_models' = [new_models EXCEPT ![t] = NoModels]
    /\ new_metrics' = [new_metrics EXCEPT ![t] = NoMetrics]
    /\ mgr' = [mgr EXCEPT ![t] = AppManager]
    /\ pre' = [pre EXCEPT ![t] = NoPair]
    /\ decision' = [decision EXCEPT ![t] = "none"]
    /\ pc' = [pc EXCEPT ![t] = IF t = Sched THEN "sleep" ELSE "idle"]
    /\ wake_at' = IF t = Sched THEN now + SleepTicks ELSE wake_at
    /\ wake_log' = wake_log

\* collect_new_training_data returned.
Collected(t) ==
    /\ pc[t] = "collect"
    /\ pc' = [pc EXCEPT ![t] = "eval_current"]
    /\ UNCHANGED <<otherVars, now, current_model_version, models, update_lock, mgr, ntrained,
                   current_metrics, new_models, new_metrics, wake_at, wake_log, ncycles, last_exit, pre,
                   decision, promotions>>

\* evaluate_current_models returned current_metrics.
EvaluatedCurrent(t) ==
    /\ pc[t] = "eval_current"
    /\ \E cm \in CurrentMetricsSet :
         current_metrics' = [current_metrics EXCEPT ![t] = cm]
    /\ pc' = [pc EXCEPT ![t] = "train"]
    /\ UNCHANGED <<otherVars, now, current_model_version, models, update_lock, mgr, ntrained,
                   new_models, new_metrics, wake_at, wake_log, ncycles, last_exit, pre, decision, promotions>>

\* train_new_models returned the candidate.
Trained(t) ==
    /\ pc[t] = "train"
    /\ ntrained' = ntrained + 1
    /\ new_models' = [new_models EXCEPT ![t] = ntrained + 1]
    /\ pc' = [pc EXCEPT ![t] = "eval_new"]
    /\ UNCHANGED <<otherVars, now, current_model_version, models, update_lock, mgr, new_metrics,
                   current_metrics, wake_at, wake_log, ncycles, last_exit, pre, decision,
                   promotions>>

\* An update that would deploy the candidate whatever the comparison said.
EvaluatedNewDeploysAnyway(t) ==
    /\ pc[t] = "eval_new"
    /\ \E nm \in NewMetricsSet :
         /\ decision' = [decision EXCEPT ![t] =
                IF should_update_models(current_metrics[t], nm)
                THEN "promote" ELSE "reject"]
         /\ new_metrics' = [new_metrics EXCEPT ![t] = nm]
         /\ pc' = [pc EXCEPT ![t] = "deploy"]
         /\ UNCHANGED <<update_lock, last_exit, wake_at, wake_log, ntrained,
                        current_metrics, new_models, mgr, pre, promotions>>
    /\ UNCHANGED <<otherVars, now, current_model_version, models, ncycles>>

EvaluatedNewBumpsAnyway(t) ==
    /\ pc[t] = "eval_new"
    /\ \E nm \in NewMetricsSet :
         IF should_update_models(current_metrics[t], nm)
         THEN /\ decision' = [decision EXCEPT ![t] = "promote"]
              /\ new_metrics' = [new_metrics EXCEPT ![t] = nm]
              /\ pc' = [pc EXCEPT ![t] = "deploy"]
              /\ UNCHANGED <<update_lock, last_exit, wake_at, wake_log, ntrained, current_metrics,
                             new_models, mgr, pre, promotions, current_model_version>>
         ELSE /\ current_model_version' =
                   [current_model_version EXCEPT ![mgr[t]] = NextVersion(@)]
              /\ Leave(t, "rejected")
    /\ UNCHANGED <<otherVars, now, models, ncycles>>

\* evaluate_models returned new_metrics; should_update_models decides.  On
\* true deploy_new_models is awaited, on false the cycle is over.
EvaluatedNew(t) ==
    /\ pc[t] = "eval_new"
    /\ \E nm \in NewMetricsSet :
         IF should_update_models(current_metrics[t], nm)
         THEN /\ decision' = [decision EXCEPT ![t] = "promote"]
              /\ new_metrics' = [new_metrics EXCEPT ![t] = nm]
              /\ pc' = [pc EXCEPT ![t] = "deploy"]
              /\ UNCHANGED <<update_lock, last_exit, wake_at, wake_log, ntrained,
                             current_metrics, new_models, mgr, pre, promotions>>
         ELSE Leave(t, "rejected")
    /\ UNCHANGED <<otherVars, now, current_model_version, models, ncycles>>

\* deploy_new_models puts the candidate in place of the active models ...
DeploySwap(t) ==
    /\ pc[t] = "deploy"
    /\ models' = [models EXCEPT ![mgr[t]] = new_models[t]]
    /\ pc' = [pc EXCEPT ![t] = "deployed"]
    /\ UNCHANGED <<otherVars, now, current_model_version, update_lock, mgr, ntrained,
                   current_metrics, new_models, new_metrics, wake_at, wake_log, ncycles, last_exit, pre,
                   decision, promotions>>

\* ... and returns: the version is raised and the cycle is over.
Promoted(t) ==
    /\ pc[t] = "deployed"
    /\ current_model_version' =
         [current_model_version EXCEPT ![mgr[t]] = NextVersion(@)]
    /\ Leave(t, "promoted")
    /\ UNCHANGED <<otherVars, now, models, ncycles>>

\* deploy_new_models put the candidate in place and returned without
\* suspending in between.
DeployedAtOnce(t) ==
    /\ pc[t] = "deploy"
    /\ models' = [models EXCEPT ![mgr[t]] = new_models[t]]
    /\ current_model_version' =
         [current_model_version EXCEPT ![mgr[t]] = NextVersion(@)]
    /\ Leave(t, "promoted")
    /\ UNCHANGED <<otherVars, now, ncycles>>

FailedPropagates(t) ==
    /\ pc[t] \in InCycle
    /\ update_lock' = [update_lock EXCEPT ![mgr[t]] = Released(@)]
    /\ last_exit' = <<t, "failed", mgr[t]>>
    /\ pc' = [pc EXCEPT ![t] = "crashed"]
    /\ UNCHANGED <<otherVars, now, current_model_version, models, ncycles, decision,
                   promotions, ntrained, current_metrics, new_models, new_metrics, mgr, pre, wake_at, wake_log>>

\* The awaited collaborator raised: "except Exception" logs it and the cycle
\* is over.
Failed(t) ==
    /\ pc[t] \in InCycle
    /\ Leave(t, "failed")
    /\ UNCHANGED <<otherVars, now, current_model_version, models, ncycles>>

Step(t) ==
    \/ Resume(t)
    \/ Collected(t)
    \/ EvaluatedCurrent(t)
    \/ Trained(t)
    \/ EvaluatedNew(t)
    \/ DeploySwap(t)
    \/ Promoted(t)
    \/ DeployedAtOnce(t)
    \/ Failed(t)

\* A loop that would start a cycle at every wake from the trigger hour on.
WakeFromTriggerHourOn ==
    /\ pc[Sched] = "sleep"
    /\ now >= wake_at
    /\ IF Hour(now) >= TriggerHour
       THEN /\ Enter(Sched, AppManager)
            /\ UNCHANGED <<wake_at, last_exit>>
            /\ wake_log' = Logged(wake_log, now, TRUE)
       ELSE /\ wake_at' = now + SleepTicks
            /\ wake_log' = Logged(wake_log, now, FALSE)
            /\ UNCHANGED <<update_lock, pc, mgr, ntrained, current_metrics, new_models, new_metrics,
                           ncycles, last_exit, pre, decision>>
    /\ UNCHANGED <<otherVars, now, current_model_version, models, promotions>>

\* schedule_model_update: the sleep is over; the loop reads the hour and
\* either runs update_models or sleeps again.
Wake ==
    /\ pc[Sched] = "sleep"
    /\ now >= wake_at
    /\ IF Hour(now) = TriggerHour
       THEN /\ Enter(Sched, AppManager)
            /\ UNCHANGED <<wake_at, last_exit>>
            /\ wake_log' = Logged(wake_log, now, TRUE)
       ELSE /\ wake_at' = now + SleepTicks
            /\ wake_log' = Logged(wake_log, now, FALSE)
            /\ UNCHANGED <<update_lock, pc, mgr, ntrained, current_metrics, new_models, new_metrics,
                           ncycles, last_exit, pre, decision>>
    /\ UNCHANGED <<otherVars, now, current_model_version, models, promotions>>

\* Time passes.  asyncio.sleep ends on time: the clock does not pass the end
\* of the scheduler's sleep before the loop has woken.
Tick ==
    /\ now < MaxTime
    /\ ~(pc[Sched] = "sleep" /\ now >= wake_at)
    /\ now' = now + 1
    /\ UNCHANGED <<updVars, otherVars>>

\* The scheduler loop is inside its await of update_models.
SchedBusy == pc[Sched] \in InCycle \cup {"lock"}

\* Time passes while no call of update_models by the loop lasts 23 hours.
TickDaily ==
    /\ SchedBusy =>
          (now + 1) - wake_log.starts[Len(wake_log.starts)] < CycleLimitHours * TicksPerHour
    /\ Tick

\* should_update_models applied to the drawn arguments.
Evaluate ==
    /\ eval_out = "none"
    /\ eval_out' = IF should_update_models(eval_in[1], eval_in[2])
                   THEN "true" ELSE "false"
    /\ UNCHANGED <<now, updVars, opsVars, eval_in, cacheVars, valVars, reqVars>>

\* ------------------------------------------------------- ops-management.py
\* deploy_new_version and restore_from_backup, one action per awaited call.
\* The collaborators (_validate_deployment, _backup_database, _stop_services,
\* ...) are external: each returns or raises, the tests return true or false.
\* A log entry <<call, result>> is written when a call is over.

Returns == {"ok", "raised"}
Verdicts == {"true", "false", "raised"}

Idle == [pc |-> "idle", log |-> <<>>, handled |-> 0]
Completed(d, call, result) == [d EXCEPT !.log = Append(@, <<call, result>>)]
At(d, where) == [d EXCEPT !.pc = where]

\* except Exception in deploy_new_version: rollback_deployment is awaited.
Rollback(d) == [d EXCEPT !.pc = "rb_last_stable", !.handled = @ + 1]

\* create_full_backup has returned: _prepare_deployment is called and
\* _deploy_green_environment awaited.
AfterBackup(d, prepared) ==
    IF prepared = "ok"
    THEN At(Completed(d, "_prepare_deployment", "ok"), "green")
    ELSE Rollback(Completed(d, "_prepare_deployment", "raised"))

\* except Exception in create_full_backup: the alert is sent and the call
\* returns; if sending the alert raises, the exception leaves the call.
BackupFailed(d, alerted, prepared) ==
    IF alerted = "ok"
    THEN AfterBackup(Completed(d, "send_alert", "ok"), prepared)
    ELSE Rollback(Completed(d, "send_alert", "raised"))

deploy_new_version ==
    /\ deployment.pc = "idle"
    /\ deployment' = At(deployment, "validate")
    /\ UNCHANGED <<now, updVars, evalVars, cacheVars, valVars, reqVars, restoration>>

ValidatedDeployment(v) ==
    /\ deployment.pc = "validate"
    /\ deployment' =
         LET d == Completed(deployment, "_validate_deployment", v)
         IN IF v = "true" THEN At(d, "backup_db") ELSE Rollback(d)
    /\ UNCHANGED <<now, updVars, evalVars, cacheVars, valVars, reqVars, restoration>>

BackedUpDatabase(o, alerted, prepared) ==
    /\ deployment.pc = "backup_db"
    /\ deployment' =
         LET d == Completed(deployment, "_backup_database", o)
         IN IF o = "ok" THEN At(d, "backup_models")
            ELSE BackupFailed(d, alerted, prepared)
    /\ UNCHANGED <<now, updVars, evalVars, cacheVars, valVars, reqVars, restoration>>

BackedUpModels(o, alerted, prepared) ==
    /\ deployment.pc = "backup_models"
    /\ deployment' =
         LET d == Completed(deployment, "_backup_ml_models", o)
         IN IF o = "ok" THEN At(d, "backup_config")
            ELSE BackupFailed(d, alerted, prepared)
    /\ UNCHANGED <<now, updVars, evalVars, cacheVars, valVars, reqVars, restoration>>

\* _backup_config is over; _upload_to_s3 and _rotate_backups are plain calls.
BackedUpConfig(o, uploaded, rotated, alerted, prepared) ==
    /\ deployment.pc = "backup_config"
    /\ deployment' =
         LET d1 == Completed(deployment, "_backup_config", o)
             d2 == Completed(d1, "_upload_to_s3", uploaded)
             d3 == Completed(d2, "_rotate_backups", rotated)
         IN IF o = "raised" THEN BackupFailed(d1, alerted, prepared)
            ELSE IF uploaded = "raised" THEN BackupFailed(d2, alerted, prepared)
            ELSE IF rotated = "raised" THEN BackupFailed(d3, alerted, prepared)
            ELSE AfterBackup(d3, prepared)
    /\ UNCHANGED <<now, updVars, evalVars, cacheVars, valVars, reqVars, restoration>>

DeployedGreen(o) ==
    /\ deployment.pc = "green"
    /\ deployment' =
         LET d == Completed(deployment, "_deploy_green_environment", o)
         IN IF o = "ok" THEN At(d, "test") ELSE Rollback(d)
    /\ UNCHANGED <<now, updVars, evalVars, cacheVars, valVars, reqVars, restoration>>

TestedDeployment(v) ==
    /\ deployment.pc = "test"
    /\ deployment' =
         LET d == Completed(deployment, "_test_deployment", v)
         IN IF v = "true" THEN At(d, "switch") ELSE Rollback(d)
    /\ UNCHANGED <<now, updVars, evalVars, cacheVars, valVars, reqVars, restoration>>

SwitchedTraffic(o) ==
    /\ deployment.pc = "switch"
    /\ deployment' =
         LET d == Completed(deployment, "_switch_traffic", o)
         IN IF o = "ok" THEN At(d, "cleanup") ELSE Rollback(d)
    /\ UNCHANGED <<now, updVars, evalVars, cacheVars, valVars, reqVars, restoration>>

CleanedUpBlue(o) ==
    /\ deployment.pc = "cleanup"
    /\ deployment' =
         LET d == Completed(deployment, "_cleanup_blue_environment", o)
         IN IF o = "ok" THEN At(d, "done") ELSE Rollback(d)
    /\ UNCHANGED <<now, updVars, evalVars, cacheVars, valVars, reqVars, restoration>>

\* except Exception in rollback_deployment: the emergency alert is sent; if
\* that raises, the exception reaches the caller of deploy_new_version.
RollbackFailed(d, alerted) ==
    At(Completed(d, "send_emergency_alert", alerted),
       IF alerted = "ok" THEN "done" ELSE "raised")

GotLastStable(o, alerted) ==
    /\ deployment.pc = "rb_last_stable"
    /\ deployment' =
         LET d == Completed(deployment, "_get_last_stable_version", o)
         IN IF o = "ok" THEN At(d, "rb_restore") ELSE RollbackFailed(d, alerted)
    /\ UNCHANGED <<now, updVars, evalVars, cacheVars, valVars, reqVars, restoration>>

RestoredConfiguration(o, alerted) ==
    /\ deployment.pc = "rb_restore"
    /\ deployment' =
         LET d == Completed(deployment, "_restore_configuration", o)
         IN IF o = "ok" THEN At(d, "rb_restart") ELSE RollbackFailed(d, alerted)
    /\ UNCHANGED <<now, updVars, evalVars, cacheVars, valVars, reqVars, restoration>>

RestartedCritical(o, alerted) ==
    /\ deployment.pc = "rb_restart"
    /\ deployment' =
         LET d == Completed(deployment, "_restart_critical_services", o)
         IN IF o = "ok" THEN At(d, "rb_verify") ELSE RollbackFailed(d, alerted)
    /\ UNCHANGED <<now, updVars, evalVars, cacheVars, valVars, reqVars, restoration>>

VerifiedHealth(v, alerted) ==
    /\ deployment.pc = "rb_verify"
    /\ deployment' =
         LET d == Completed(deployment, "_verify_system_health", v)
         IN IF v = "true" THEN At(d, "done") ELSE RollbackFailed(d, alerted)
    /\ UNCHANGED <<now, updVars, evalVars, cacheVars, valVars, reqVars, restoration>>

\* except Exception in restore_from_backup: _emergency_recovery is awaited.
Recover(d) == [d EXCEPT !.pc = "recovery", !.handled = @ + 1]

\* A restore_from_backup that would go on with a backup that failed validation.
restore_from_backup_unchecked(downloaded, valid) ==
    /\ restoration.pc = "idle"
    /\ restoration' =
         LET d1 == Completed(restoration, "_download_from_s3", downloaded)
             d2 == Completed(d1, "_validate_backup", valid)
         IN IF downloaded = "raised" THEN Recover(d1)
            ELSE IF valid = "raised" THEN Recover(d2)
            ELSE At(d2, "stop")
    /\ UNCHANGED <<now, updVars, evalVars, cacheVars, valVars, reqVars, deployment>>

\* restore_from_backup up to its first await: the backup is downloaded and
\* validated, then _stop_services is awaited.
restore_from_backup(downloaded, valid) ==
    /\ restoration.pc = "idle"
    /\ restoration' =
         LET d1 == Completed(restoration, "_download_from_s3", downloaded)
             d2 == Completed(d1, "_validate_backup", valid)
         IN IF downloaded = "raised" THEN Recover(d1)
            ELSE IF valid = "true" THEN At(d2, "stop")
            ELSE Recover(d2)
    /\ UNCHANGED <<now, updVars, evalVars, cacheVars, valVars, reqVars, deployment>>

StoppedServices(o) ==
    /\ restoration.pc = "stop"
    /\ restoration' =
         LET d == Completed(restoration, "_stop_services", o)
         IN IF o = "ok" THEN At(d, "restore_db") ELSE Recover(d)
    /\ UNCHANGED <<now, updVars, evalVars, cacheVars, valVars, reqVars, deployment>>

RestoredDatabase(o) ==
    /\ restoration.pc = "restore_db"
    /\ restoration' =
         LET d == Completed(restoration, "_restore_database", o)
         IN IF o = "ok" THEN At(d, "restore_models") ELSE Recover(d)
    /\ UNCHANGED <<now, updVars, evalVars, cacheVars, valVars, reqVars, deployment>>

RestoredModels(o) ==
    /\ restoration.pc = "restore_models"
    /\ restoration' =
         LET d == Completed(restoration, "_restore_ml_models", o)
         IN IF o = "ok" THEN At(d, "restore_config") ELSE Recover(d)
    /\ UNCHANGED <<now, updVars, evalVars, cacheVars, valVars, reqVars, deployment>>

RestoredConfig(o) ==
    /\ restoration.pc = "restore_config"
    /\ restoration' =
         LET d == Completed(restoration, "_restore_config", o)
         IN IF o = "ok" THEN At(d, "start") ELSE Recover(d)
    /\ UNCHANGED <<now, updVars, evalVars, cacheVars, valVars, reqVars, deployment>>

StartedServices(o) ==
    /\ restoration.pc = "start"
    /\ restoration' =
         LET d == Completed(restoration, "_start_services", o)
         IN IF o = "ok" THEN At(d, "done") ELSE Recover(d)
    /\ UNCHANGED <<now, updVars, evalVars, cacheVars, valVars, reqVars, deployment>>

\* _emergency_recovery is over; if it raised, the exception reaches the
\* caller of restore_from_backup.
EmergencyRecovered(o) ==
    /\ restoration.pc = "recovery"
    /\ restoration' =
         At(Completed(restoration, "_emergency_recovery", o),
            IF o = "ok" THEN "done" ELSE "raised")
    /\ UNCHANGED <<now, updVars, evalVars, cacheVars, valVars, reqVars, deployment>>

\* ----------------------------------------------------------- specifications

InitUpd ==
    /\ current_model_version = [m \in Managers |-> InitialVersion]
    /\ models = [m \in Managers |-> NoModels]
    /\ update_lock = [m \in Managers |-> FreeLock]
    /\ mgr = [t \in Tasks |-> AppManager]
    /\ ntrained = 0
    /\ current_metrics = [t \in Tasks |-> NoMetrics]
    /\ new_models = [t \in Tasks |-> NoModels]
    /\ new_metrics = [t \in Tasks |-> NoMetrics]
    /\ wake_at = 0
    /\ wake_log = NoWakes
    /\ ncycles = 0
    /\ last_exit = NoExit
    /\ pre = [t \in Tasks |-> NoPair]
    /\ decision = [t \in Tasks |-> "none"]
    /\ promotions = [m \in Managers |-> 0]

NoEval ==
    /\ eval_in = <<NoMetrics, NoMetrics>>
    /\ eval_out = "none"

NoCache ==
    /\ redis = [k \in Keys |-> NoEntry]
    /\ got = NoGot
    /\ written = [k \in Keys |-> NoWrite]
    /\ nwrites = 0

NoVal ==
    /\ val_in = NoPrediction
    /\ val_out = NoOutcome

NoOps ==
    /\ deployment = Idle
    /\ restoration = Idle

NoReq ==
    /\ req = [r \in Requests |-> NoRequest]
    /\ returned = NoReturn
    /\ produced = NoResponse

\* Concurrent callers of update_models; the scheduler loop is not started.
Init ==
    /\ now = 0
    /\ pc = [t \in Tasks |-> IF t = Sched THEN "off" ELSE "idle"]
    /\ InitUpd
    /\ NoEval
    /\ NoCache
    /\ NoVal
    /\ NoReq
    /\ NoOps

Next ==
    \/ \E t \in Callers, m \in Managers : Call(t, m)
    \/ \E t \in Callers : Step(t)

Spec == Init /\ [][Next]_vars

\* The scheduler loop, started at any time of day, beside one direct caller.
SchedCallers == {1}

\* The times of day the application is started at: midnight, inside the
\* trigger hour, right after it, and in the afternoon.
BootTimes ==
    {0, TriggerHour * TicksPerHour + 1, (TriggerHour + 1) * TicksPerHour,
     14 * TicksPerHour + 1}

InitSched ==
    /\ now \in BootTimes
    /\ pc = [t \in Tasks |-> IF t = Sched THEN "sleep"
                             ELSE IF t \in SchedCallers THEN "idle" ELSE "off"]
    /\ InitUpd
    /\ NoEval
    /\ NoCache
    /\ NoVal
    /\ NoReq
    /\ NoOps

NextSched ==
    \/ Wake
    \/ Tick
    \/ Step(Sched)
    \/ \E t \in SchedCallers : Call(t, AppManager) \/ Step(t)

SpecSched == InitSched /\ [][NextSched]_vars

\* The scheduler loop when each of its update_models calls ends in less than
\* 23 hours.
NextDaily ==
    \/ Wake
    \/ TickDaily
    \/ Step(Sched)
    \/ \E t \in SchedCallers : Call(t, AppManager) \/ Step(t)

SpecDaily == InitSched /\ [][NextDaily]_vars

\* should_update_models as a pure function of two metric snapshots.
EvalDeltas == {-10, 19, 20, 21, 50}
EvalCurrentSet ==
    CurrentMetricsSet \cup {[accuracy |-> 500, rmse |-> 2000, log_loss |-> 900]}
Improved(cur, da, dr, dl) ==
    [accuracy |-> cur.accuracy + da, rmse |-> cur.rmse - dr,
     log_loss |-> cur.log_loss - dl]

InitEval ==
    /\ now = 0
    /\ pc = [t \in Tasks |-> "off"]
    /\ InitUpd
    /\ eval_out = "none"
    /\ NoCache
    /\ NoVal
    /\ NoReq
    /\ NoOps
    /\ \E cur \in EvalCurrentSet, da \in EvalDeltas, dr \in EvalDeltas, dl \in EvalDeltas :
         eval_in = <<cur, Improved(cur, da, dr, dl)>>

NextEval == Evaluate

SpecEval == InitEval /\ [][NextEval]_vars

\* The cache on its own: writers and readers of the two keys, the clock and
\* Redis' expiry.
InitCache ==
    /\ now = 0
    /\ pc = [t \in Tasks |-> "off"]
    /\ InitUpd
    /\ NoEval
    /\ NoCache
    /\ NoVal
    /\ NoReq
    /\ NoOps

NextCache ==
    \/ \E k \in Keys : get_cached_prediction(k)
    \/ \E k \in Keys, p \in Payloads : cache_prediction(k, p)
    \/ \E k \in Keys : RedisExpire(k)
    \/ CacheTick

SpecCache == InitCache /\ [][NextCache]_vars

\* validate_prediction as a function of its argument.
InitValidate ==
    /\ now = 0
    /\ pc = [t \in Tasks |-> "off"]
    /\ InitUpd
    /\ NoEval
    /\ NoCache
    /\ NoReq
    /\ NoOps
    /\ val_in \in Predictions
    /\ val_out = NoOutcome

NextValidate == Validate

SpecValidate == InitValidate /\ [][NextValidate]_vars

\* Requests of get_prediction against the Redis database, while time passes.
InitPredict ==
    /\ now = 0
    /\ pc = [t \in Tasks |-> "off"]
    /\ InitUpd
    /\ NoEval
    /\ NoCache
    /\ NoVal
    /\ NoReq
    /\ NoOps

NextPredict ==
    \/ \E r \in Requests, k \in Keys : Lookup(r, k)
    \/ \E r \in Requests, p \in Generated : EngineReturned(r, p)
    \/ \E r \in Requests : EngineRaised(r)
    \/ \E k \in Keys : RedisExpire(k)
    \/ CacheTick

SpecPredict == InitPredict /\ [][NextPredict]_vars

\* A deployment and a restoration, each awaited once, as two tasks.
InitOps ==
    /\ now = 0
    /\ pc = [t \in Tasks |-> "off"]
    /\ InitUpd
    /\ NoEval
    /\ NoCache
    /\ NoVal
    /\ NoReq
    /\ NoOps

NextOps ==
    \/ deploy_new_version
    \/ \E v \in Verdicts : ValidatedDeployment(v)
    \/ \E o, alerted, prepared \in Returns : BackedUpDatabase(o, alerted, prepared)
    \/ \E o, alerted, prepared \in Returns : BackedUpModels(o, alerted, prepared)
    \/ \E o, uploaded, rotated, alerted, prepared \in Returns :
          BackedUpConfig(o, uploaded, rotated, alerted, prepared)
    \/ \E o \in Returns : DeployedGreen(o)
    \/ \E v \in Verdicts : TestedDeployment(v)
    \/ \E o \in Returns : SwitchedTraffic(o)
    \/ \E o \in Returns : CleanedUpBlue(o)
    \/ \E o, alerted \in Returns : GotLastStable(o, alerted)
    \/ \E o, alerted \in Returns : RestoredConfiguration(o, alerted)
    \/ \E o, alerted \in Returns : RestartedCritical(o, alerted)
    \/ \E v \in Verdicts, alerted \in Returns : VerifiedHealth(v, alerted)
    \/ \E downloaded \in Returns, valid \in Verdicts : restore_from_backup(downloaded, valid)
    \/ \E o \in Returns : StoppedServices(o)
    \/ \E o \in Returns : RestoredDatabase(o)
    \/ \E o \in Returns : RestoredModels(o)
    \/ \E o \in Returns : RestoredConfig(o)
    \/ \E o \in Returns : StartedServices(o)
    \/ \E o \in Returns : EmergencyRecovered(o)

SpecOps == InitOps /\ [][NextOps]_vars

\* ------------------------------------------------------------------ claims

Running(m) == {t \in Tasks : mgr[t] = m /\ pc[t] \in InCycle}
Leaves(t) == pc[t] \in InCycle /\ pc'[t] \notin InCycle
Registry(m) == <<models[m], current_model_version[m]>>

\* C1: on one ModelUpdateManager at most one invocation of update_models is
\* between taking update_lock and leaving the cycle, so at most one is training.
C1_SingleFlightPerManager ==
    \A m \in Managers : Cardinality(Running(m)) <= 1

C1_Witness ==
    \E t1, t2 \in Tasks :
        /\ t1 /= t2 /\ mgr[t1] = mgr[t2]
        /\ pc[t1] = "train" /\ pc[t2] = "lock"

\* C2: at most one update cycle runs in the whole process, whatever
\* ModelUpdateManager instances the cycles run on.
C2_SingleFlightSystemWide ==
    Cardinality({t \in Tasks : pc[t] \in InCycle}) <= 1

\* C3: update_lock is held only while a cycle runs: once update_models has
\* finished, by promotion, rejection or failure, the lock is free again.
C3_LockReleasedOnExit ==
    \A m \in Managers : update_lock[m].locked <=> Running(m) /= {}

\* A cycle failed after its candidate was put in place, and a later cycle
\* has taken the lock of the same manager.
C3_Witness ==
    \E t \in Tasks :
        /\ last_exit[2] = "failed"
        /\ mgr[t] = last_exit[3] /\ pc[t] = "collect"
        /\ promotions[mgr[t]] = 0 /\ models[mgr[t]] /= NoModels

\* C5: the version of a manager is 1.0 plus one step of 0.1 for each of its
\* cycles that promoted, and no step ever lowers it.
C5_VersionCountsPromotions ==
    /\ [](\A m \in Managers :
            current_model_version[m] = InitialVersion + VersionStep * promotions[m])
    /\ [][\A m \in Managers :
            current_model_version'[m] >= current_model_version[m]]_vars

C5_Witness ==
    \E m \in Managers : promotions[m] = 2 /\ current_model_version[m] = 12

\* C6: the step that ends a cycle by rejection leaves versions and active
\* models as they were when the cycle took the lock, comes straight from the
\* candidate's evaluation (deploy_new_models is not called) and ends idle with
\* the lock free.
C6_RejectionChangesNothing ==
    [][\A t \in Tasks :
         (Leaves(t) /\ last_exit'[2] = "rejected") =>
            /\ models' = models
            /\ current_model_version' = current_model_version
            /\ Registry(mgr[t]) = pre[t]
            /\ pc[t] = "eval_new"
            /\ pc'[t] \in {"idle", "sleep"}
            /\ ~update_lock'[mgr[t]].locked]_vars

\* A cycle was rejected on a manager that an earlier cycle had promoted on.
C6_Witness ==
    /\ last_exit[2] = "rejected"
    /\ \A t \in Tasks : pc[t] \notin InCycle
    /\ \A m \in Managers \ {AppManager} : models[m] = NoModels
    /\ promotions[AppManager] = 1 /\ models[AppManager] /= NoModels
    /\ ncycles = 2 /\ last_exit[3] = AppManager

\* C8: while a cycle runs on a manager, the pair (active models, version) a
\* reader sees is the pair the cycle found or the pair it will leave: the
\* candidate together with the raised version.
C8_RegistryPairNeverPartial ==
    \A t \in Tasks :
        pc[t] \in InCycle =>
            \/ Registry(mgr[t]) = pre[t]
            \/ /\ new_models[t] /= NoModels
               /\ Registry(mgr[t]) = <<new_models[t], NextVersion(pre[t][2])>>

\* C4: should_update_models answers true exactly when the accuracy gain, the
\* rmse reduction and the log_loss reduction are each strictly above 0.02.
C4_PromotionGate ==
    eval_out /= "none" =>
        LET cur == eval_in[1]
            new == eval_in[2]
        IN (eval_out = "true") <=>
              /\ new.accuracy - cur.accuracy > 20
              /\ cur.rmse - new.rmse > 20
              /\ cur.log_loss - new.log_loss > 20

C4_Witness ==
    /\ eval_out = "false"
    /\ eval_in[2].accuracy - eval_in[1].accuracy = 20
    /\ eval_in[1].rmse - eval_in[2].rmse = 50
    /\ eval_in[1].log_loss - eval_in[2].log_loss = 50

\* C7: a failure in a cycle the scheduler runs is swallowed: the step that
\* fails skips the rest of the cycle, frees the lock and puts the loop to
\* sleep for an hour; the loop never dies of it.
C7_FailureSwallowed ==
    /\ [](pc[Sched] /= "crashed")
    /\ [][(Leaves(Sched) /\ last_exit'[2] = "failed") =>
            /\ pc'[Sched] = "sleep"
            /\ wake_at' = now + SleepTicks
            /\ ~update_lock'[AppManager].locked
            /\ models' = models
            /\ current_model_version' = current_model_version]_vars

\* After a failed cycle the loop has slept, woken at a later trigger hour and
\* is running a new cycle.
C7_Witness ==
    /\ last_exit[1] = Sched /\ last_exit[2] = "failed"
    /\ pc[Sched] = "train"
    /\ now >= HoursPerDay * TicksPerHour

SixHours == 6 * CacheTicksPerHour

\* C9: a read of a key returns the payload and timestamp of the last write
\* of that key while less than six hours have passed since that write, and
\* None from six hours on, the sixth hour included.
C9_TTLCorrectness ==
    [][\A k \in Keys :
         (got' /= NoGot /\ got'.key = k /\ written[k] /= NoWrite) =>
            got'.result =
               IF now < written[k].createdAt + SixHours
               THEN [kind |-> "dict", payload |-> written[k].payload,
                     timestamp |-> IsoFormat(written[k].createdAt)]
               ELSE None]_vars

\* A read exactly six hours after the write, the entry still being in Redis,
\* returned None.
C9_Witness ==
    /\ got /= NoGot
    /\ written[got.key] /= NoWrite
    /\ got.at = written[got.key].createdAt + SixHours
    /\ redis[got.key] /= NoEntry /\ got.at < redis[got.key].expire_at
    /\ got.result = None

\* C10: a read leaves every entry of the store as it was, and its result is
\* None or a prediction dict, for a fresh, a stale and a missing key alike.
C10_GetIsPureRead ==
    [][got' /= NoGot =>
         /\ redis' = redis
         /\ got'.result = None \/ got'.result.kind = "dict"
         /\ (RedisGet(redis, got'.key, now) = NoEntry => got'.result = None)]_vars

\* A read of a stale key whose entry Redis still holds.
C10_Witness ==
    /\ got /= NoGot
    /\ got.result = None
    /\ redis[got.key] /= NoEntry
    /\ got.at >= written[got.key].createdAt + SixHours

Stored(k) == Loads(redis[k].value)
LastWritten(k) ==
    [kind |-> "dict", payload |-> written[k].payload,
     timestamp |-> IsoFormat(written[k].createdAt)]

\* C11 (as claimed): once written, an entry stays in the store, past its TTL
\* too, until a later write of the same key replaces it.
C11_NeverEvicted ==
    \A k \in Keys : written[k] /= NoWrite => redis[k] /= NoEntry

\* C11 (amended): an entry of the store changes only by a cache_prediction on
\* its key or by Redis dropping it once the six-hour expiry set by SETEX has
\* passed; reads never remove or change it.
C11_OnlyWriteOrExpiry ==
    [][\A k \in Keys :
         redis'[k] /= redis[k] =>
            \/ /\ nwrites' = nwrites + 1
               /\ redis'[k] /= NoEntry
               /\ FromIsoFormat(Loads(redis'[k].value).timestamp) = now
            \/ /\ redis[k] /= NoEntry
               /\ now >= redis[k].expire_at
               /\ now >= written[k].createdAt + SixHours
               /\ redis'[k] = NoEntry]_vars

\* An entry that was written is gone from the store without a later write.
C11_Witness ==
    \E k \in Keys :
        /\ written[k] /= NoWrite /\ redis[k] = NoEntry
        /\ now >= written[k].createdAt + SixHours

\* C12: the store holds, under each key, exactly the payload and the call
\* time of the last cache_prediction on that key; a write always replaces
\* the entry of its key, fresh or not, and leaves the other keys alone.
C12_LastWriteWins ==
    /\ [](\A k \in Keys :
            redis[k] /= NoEntry =>
               written[k] /= NoWrite /\ Stored(k) = LastWritten(k))
    /\ [][nwrites' /= nwrites =>
            \E k \in Keys :
               /\ redis'[k] /= NoEntry
               /\ FromIsoFormat(Loads(redis'[k].value).timestamp) = now
               /\ \A j \in Keys \ {k} : redis'[j] = redis[j]]_vars

\* One key was written twice, the second time while the first entry was
\* fresh, and the store holds the second write.
C12_Witness ==
    \E k \in Keys :
        /\ nwrites = 2
        /\ \A j \in Keys \ {k} : written[j] = NoWrite
        /\ written[k].createdAt > 0 /\ written[k].createdAt < SixHours
        /\ redis[k] /= NoEntry /\ Stored(k) = LastWritten(k)

\* The scheduler loop wakes: it was asleep and either starts update_models or
\* goes back to sleep.
Wakes ==
    /\ pc[Sched] = "sleep"
    /\ pc'[Sched] /= "sleep" \/ wake_at' /= wake_at

StartsCycle ==
    /\ pc'[Sched] \in {"collect", "lock"}
    /\ ncycles' = ncycles + 1
    /\ mgr'[Sched] = AppManager

\* C19: at each wake of the scheduler loop an update cycle is started if and
\* only if the local hour of day at that moment is 3; nothing remembers that
\* a cycle already ran, so a wake in hour 3 of a later day starts one again.
C19_CycleStartsIffHourThree ==
    [][Wakes => (StartsCycle <=> (now \div TicksPerHour) % 24 = 3)]_vars

\* The loop has run a cycle to its end and has started another one, a day
\* later, again in hour 3.
C19_Witness ==
    /\ pc[Sched] \in {"collect", "lock"}
    /\ (now \div TicksPerHour) % 24 = 3
    /\ now >= HoursPerDay * TicksPerHour
    /\ last_exit[1] = Sched

\* The order of the awaits of update_models: each position and the one that
\* follows it.
StepOrder ==
    {<<"collect", "eval_current">>, <<"eval_current", "train">>,
     <<"train", "eval_new">>, <<"eval_new", "deploy">>, <<"deploy", "deployed">>}

Outside == {"idle", "sleep", "off", "lock"}

\* What a cycle holds at each of its positions.
HoldsAt(t) ==
    LET cur  == current_metrics[t] /= NoMetrics
        cand == new_models[t] /= NoModels
        new  == new_metrics[t] /= NoMetrics
    IN CASE pc[t] \in {"collect", "eval_current"} -> ~cur /\ ~cand /\ ~new
         [] pc[t] = "train"    -> cur /\ ~cand /\ ~new
         [] pc[t] = "eval_new" -> cur /\ cand /\ ~new
         [] pc[t] \in {"deploy", "deployed"} ->
               /\ cur /\ cand /\ new
               /\ decision[t] = "promote"
               /\ should_update_models(current_metrics[t], new_metrics[t])
         [] OTHER -> TRUE

\* C20: a cycle goes through collect, evaluate current, train, evaluate
\* candidate, decide in this order; deploy_new_models is awaited, the active
\* models replaced and the version raised only by a cycle that holds both of
\* its own evaluations and on which should_update_models returned true.
C20_StepOrder ==
    /\ [](\A t \in Tasks : HoldsAt(t))
    /\ [][\A t \in Tasks :
            pc'[t] /= pc[t] =>
               \/ pc[t] \in Outside /\ pc'[t] \in Outside \cup {"collect"}
               \/ <<pc[t], pc'[t]>> \in StepOrder
               \/ pc[t] \in InCycle /\ pc'[t] \in {"idle", "sleep"}]_vars
    /\ [][\A m \in Managers :
            (models'[m] /= models[m] \/ current_model_version'[m] /= current_model_version[m])
               => \E t \in Tasks :
                     /\ mgr[t] = m
                     /\ pc[t] \in {"deploy", "deployed"}
                     /\ should_update_models(current_metrics[t], new_metrics[t])
                     /\ models'[m] \in {models[m], new_models[t]}]_vars

\* A cycle has put its candidate in place after both evaluations and a
\* favourable comparison.
C20_Witness ==
    \E t \in Tasks :
        /\ pc[t] = "deployed"
        /\ models[mgr[t]] = new_models[t]
        /\ should_update_models(current_metrics[t], new_metrics[t])

Reason(outcome) == outcome[2]
Accepted(outcome) == outcome[1]

\* The four checks, as conditions on the prediction.
ConfidenceOk(p) == p.confidence >= 60
ProbabilitiesOk(p) == p.probabilities.home + p.probabilities.draw + p.probabilities.away <= 110
ScoresOk(p) == p.home_score <= 10 /\ p.away_score <= 10
FeaturesOk(p) ==
    {"team_form", "historical_performance", "player_statistics", "weather_conditions"}
        \subseteq p.features

\* C13: validate_prediction checks confidence >= 0.6, probability sum <= 1.1,
\* both scores <= 10 and the required features in this order and returns the
\* reason of the first check that fails; it accepts exactly when all four
\* hold, the values 0.6, 1.1 and 10 included.
C13_FirstFailingReason ==
    val_out /= NoOutcome =>
        /\ Reason(val_out) =
              IF ~ConfidenceOk(val_in) THEN "Confiance insuffisante"
              ELSE IF ~ProbabilitiesOk(val_in) THEN "Probabilités incohérentes"
              ELSE IF ~ScoresOk(val_in) THEN "Scores prédits anormalement élevés"
              ELSE IF ~FeaturesOk(val_in) THEN "Données d'entrée invalides ou incomplètes"
              ELSE "Prédiction valide"
        /\ Accepted(val_out) <=>
              (ConfidenceOk(val_in) /\ ProbabilitiesOk(val_in) /\ ScoresOk(val_in)
                 /\ FeaturesOk(val_in))
        /\ (/\ val_in.confidence = 60
            /\ SumValues(val_in.probabilities) = 110
            /\ val_in.home_score = 10 /\ val_in.away_score = 10
            /\ FeaturesOk(val_in)) => Accepted(val_out)

\* A prediction that fails the second, third and fourth check was given the
\* reason of the second.
C13_Witness ==
    /\ val_in.confidence = 60
    /\ SumValues(val_in.probabilities) = 111
    /\ val_in.home_score = 11
    /\ val_in.features = {}
    /\ val_out = <<FALSE, "Probabilités incohérentes">>

\* C14 (as claimed): a prediction whose features lack weather_conditions is
\* rejected with the missing-features reason whatever its other fields hold.
C14_MissingWeatherReason ==
    (val_out /= NoOutcome /\ "weather_conditions" \notin val_in.features) =>
        val_out = <<FALSE, "Données d'entrée invalides ou incomplètes">>

\* C14 (amended): a prediction whose features lack weather_conditions is
\* always rejected; the reason is the missing-features one exactly when the
\* confidence, probability and score checks pass, and otherwise the reason
\* of the first of these that fails.
C14_MissingWeatherRejected ==
    (val_out /= NoOutcome /\ "weather_conditions" \notin val_in.features) =>
        /\ ~Accepted(val_out)
        /\ Reason(val_out) = "Données d'entrée invalides ou incomplètes"
              <=> (ConfidenceOk(val_in) /\ ProbabilitiesOk(val_in) /\ ScoresOk(val_in))
        /\ ~ConfidenceOk(val_in) => Reason(val_out) = "Confiance insuffisante"

\* Only weather_conditions is missing and the other checks pass.
C14_Witness ==
    /\ val_in.features = required_features \ {"weather_conditions"}
    /\ ConfidenceOk(val_in) /\ ProbabilitiesOk(val_in) /\ ScoresOk(val_in)
    /\ val_out = <<FALSE, "Données d'entrée invalides ou incomplètes">>

\* A prediction that passes the four checks.
Valid(p) == ConfidenceOk(p) /\ ProbabilitiesOk(p) /\ ScoresOk(p) /\ FeaturesOk(p)

IsFallback(v) ==
    /\ v.kind = "fallback"
    /\ v.home_score = None /\ v.away_score = None /\ v.confidence = 0

TimeOf(v) == FromIsoFormat(v.timestamp)

\* Steps of a request: a hit, a return after the engine, a failure.
Hits(r) == req[r].pc = "new" /\ req'[r].pc = "done"
ReturnsGenerated(r) == req[r].pc = "engine" /\ req'[r].pc = "done"
Raises(r) == req[r].pc = "engine" /\ req'[r].pc = "raised"
CacheSame == redis' = redis /\ written' = written /\ nwrites' = nwrites

\* C15: a request whose generated prediction is rejected returns the
\* fallback (scores None, confidence 0) and writes nothing; whatever the
\* interleaving, every stored entry passes the validator, and a cache hit
\* returns neither a rejected prediction nor the fallback.
C15_FallbackNotCached ==
    /\ [](\A k \in Keys :
            redis[k] /= NoEntry =>
               Stored(k).kind = "dict" /\ Valid(Stored(k).payload))
    /\ [][\A r \in Requests :
            ReturnsGenerated(r) =>
               \/ /\ req'[r].wrote = 0
                  /\ returned'[1] = r /\ IsFallback(returned'[2])
                  /\ CacheSame
               \/ /\ req'[r].wrote = 1
                  /\ returned'[1] = r /\ returned'[2].kind = "dict"
                  /\ Valid(returned'[2].payload)]_vars
    /\ [][\A r \in Requests :
            Hits(r) => returned'[2].kind = "dict" /\ Valid(returned'[2].payload)]_vars

\* A request was answered by the fallback; a later request for the same match
\* id found nothing in the cache and is waiting for the engine.
C15_Witness ==
    \E q, r \in Requests :
        /\ q < r /\ req[q].key = req[r].key
        /\ req[q].pc = "done" /\ req[q].validated = 1 /\ req[q].wrote = 0
        /\ returned[1] = q /\ IsFallback(returned[2])
        /\ req[r].pc = "engine"
        /\ redis[req[r].key] = NoEntry

\* C16: a request that finds its match id in the cache returns what is
\* stored, as it is: it does not invoke the engine, does not run the
\* validator and leaves the cache as it was.
C16_HitReturnsCached ==
    /\ [](\A r \in Requests :
            req[r].hit =>
               /\ req[r].pc = "done"
               /\ req[r].engine = 0 /\ req[r].validated = 0 /\ req[r].wrote = 0)
    /\ [][\A r \in Requests :
            Hits(r) =>
               /\ req'[r].hit
               /\ redis[req'[r].key] /= NoEntry
               /\ returned' = <<r, Loads(redis[req'[r].key].value)>>
               /\ CacheSame /\ now' = now]_vars

\* A request was answered from the cache, with the entry another request
\* had stored.
C16_Witness ==
    \E q, r \in Requests :
        /\ q /= r /\ req[q].wrote = 1 /\ req[q].key = req[r].key
        /\ req[r].hit /\ req[r].engine = 0
        /\ returned = <<r, Stored(req[r].key)>>

\* C17: a request whose generated prediction is accepted stores it under its
\* match id with an expiry of six hours and returns it; a request for the
\* same match id that comes next, less than six hours after, returns the same
\* dict and does not invoke the engine.
C17_CachedThenServed ==
    /\ [][\A r \in Requests :
            (ReturnsGenerated(r) /\ req'[r].wrote = 1) =>
               LET k == req[r].key
               IN /\ redis'[k] /= NoEntry
                  /\ redis'[k].expire_at = now' + SixHours
                  /\ returned' = <<r, Loads(redis'[k].value)>>
                  /\ TimeOf(returned'[2]) = now]_vars
    /\ [][\A r \in Requests :
            (/\ req[r].pc = "new" /\ req'[r].pc /= "new"
             /\ returned[1] \in Requests \ {r}
             /\ returned[2].kind = "dict"
             /\ req[returned[1]].key = req'[r].key
             /\ now < TimeOf(returned[2]) + SixHours)
               => /\ req'[r].pc = "done"
                  /\ req'[r].engine = 0
                  /\ returned' = <<r, returned[2]>>]_vars

\* The first request stored its prediction; hours later the second one got
\* the same dict from the cache.
C17_Witness ==
    \E q, r \in Requests :
        /\ q < r /\ req[q].key = req[r].key
        /\ req[q].wrote = 1 /\ req[q].engine = 1
        /\ req[r].hit /\ req[r].engine = 0
        /\ nwrites = 1
        /\ returned = <<r, Stored(req[r].key)>>
        /\ now > TimeOf(returned[2]) /\ now < TimeOf(returned[2]) + SixHours

\* C18: when generate_prediction fails, the request has invoked the engine
\* once and does not invoke it again; the failure ends the request without a
\* returned value, fallback included, and the cache is as it was.
C18_EngineFailurePropagates ==
    /\ [](\A r \in Requests :
            /\ req[r].engine <= 1
            /\ req[r].pc = "raised" =>
                  /\ req[r].engine = 1 /\ req[r].validated = 0 /\ req[r].wrote = 0
                  /\ ~req[r].hit /\ returned[1] /= r
            /\ (req[r].pc = "done" /\ req[r].engine = 1) => req[r].validated = 1)
    /\ [][\A r \in Requests :
            /\ Raises(r) => CacheSame /\ returned' = returned /\ now' = now
            /\ req'[r].engine /= req[r].engine => req[r].pc = "new"
            /\ req[r].pc = "raised" => req'[r] = req[r]]_vars

\* The engine failed on a request while the cache held another request's
\* entry.
C18_Witness ==
    \E q, r \in Requests :
        /\ req[r].pc = "raised" /\ req[r].engine = 1
        /\ req[q].wrote = 1 /\ redis[req[q].key] /= NoEntry
        /\ returned[1] = q

\* A request returns the prediction the engine generated for it.
ReturnsAccepted(r) == ReturnsGenerated(r) /\ req'[r].wrote = 1

\* C21: on the accept path get_prediction returns the dict the engine
\* produced, with exactly its fields and values: caching it does not alter
\* the object handed to the caller.
C21_ReturnedAsProduced ==
    [][\A r \in Requests :
         ReturnsAccepted(r) => returned' = <<r, produced'>>]_vars

\* Calendar day and absolute hour of a time.
DayOf(t) == t \div (24 * TicksPerHour)
HourOf(t) == t \div TicksPerHour
Starts == wake_log.starts

\* C22: two consecutive wakes of the scheduler loop are at least one hour
\* apart, so the loop starts at most one cycle within one trigger hour and at
\* most one on a calendar day.
C22_AtMostOneCyclePerDay ==
    /\ [][(Wakes /\ wake_log.last /= -1) => now - wake_log.last >= TicksPerHour]_vars
    /\ [](\A i, j \in DOMAIN Starts :
            i < j => /\ HourOf(Starts[i]) < HourOf(Starts[j])
                     /\ DayOf(Starts[i]) < DayOf(Starts[j]))

\* The loop, started inside the trigger hour, started a cycle at once and
\* another one a day later, and has woken since.
C22_Witness ==
    /\ Len(Starts) = 2
    /\ DayOf(Starts[1]) + 1 = DayOf(Starts[2])
    /\ wake_log.first = Starts[1]
    /\ Starts[1] % TicksPerHour /= 0
    /\ wake_log.last > Starts[2]

\* The trigger hour of calendar day d: from WindowStart to before WindowEnd.
WindowStart(d) == (d * 24 + 3) * TicksPerHour
WindowEnd(d) == (d * 24 + 4) * TicksPerHour
Days == 0..DayOf(MaxTime)

\* C23: with sleeps of exactly one hour and every call of update_models over
\* in less than 23 hours, each calendar day whose hour 03:00-03:59 the loop
\* was running in has a wake inside that hour that started a cycle: once the
\* hour is over, the cycle of that day has been started.
C23_CycleEveryDay ==
    \A d \in Days :
        (/\ wake_log.first /= -1
         /\ wake_log.first < WindowEnd(d)
         /\ now >= WindowEnd(d))
           => \E i \in DOMAIN Starts :
                 Starts[i] >= WindowStart(d) /\ Starts[i] < WindowEnd(d)

\* The first day's cycle shifted the wakes within the hour; the trigger hour
\* of the second day is over and its cycle was started, later in the hour
\* than the first day's.
C23_Witness ==
    /\ Len(Starts) = 2
    /\ wake_log.first < WindowStart(0)
    /\ now >= WindowEnd(1)
    /\ Starts[2] >= WindowStart(1) /\ Starts[2] < WindowEnd(1)
    /\ Starts[2] - WindowStart(1) > Starts[1] - WindowStart(0)

\* Reading a log of completed calls.
Called(log, call) == \E i \in DOMAIN log : log[i][1] = call
Gave(log, call, result) == \E i \in DOMAIN log : log[i] = <<call, result>>
GaveBefore(log, call, result, later) ==
    \A j \in DOMAIN log :
        log[j][1] = later => \E i \in 1..(j - 1) : log[i] = <<call, result>>
Failure(entry) == entry[2] \in {"raised", "false"}

BackupCalls ==
    {"_backup_database", "_backup_ml_models", "_backup_config", "_upload_to_s3",
     "_rotate_backups"}
DeployCalls ==
    {"_validate_deployment", "_prepare_deployment", "_deploy_green_environment",
     "_test_deployment", "_switch_traffic", "_cleanup_blue_environment"}
RollbackCalls ==
    {"_get_last_stable_version", "_restore_configuration", "_restart_critical_services",
     "_verify_system_health", "send_emergency_alert"}

\* C24: traffic is switched only after the validation passed, the backup was
\* attempted, green was deployed and the tests passed; blue is cleaned up only
\* after the switch; a failure at any of these steps, the backup included,
\* starts rollback_deployment, exactly once, and no later step is run.
C24_DeployOrderAndRollback ==
    LET log == deployment.log
    IN /\ GaveBefore(log, "_validate_deployment", "true", "_switch_traffic")
       /\ GaveBefore(log, "_backup_database", "ok", "_switch_traffic")
            \/ GaveBefore(log, "_backup_database", "raised", "_switch_traffic")
       /\ GaveBefore(log, "_deploy_green_environment", "ok", "_switch_traffic")
       /\ GaveBefore(log, "_test_deployment", "true", "_switch_traffic")
       /\ GaveBefore(log, "_switch_traffic", "ok", "_cleanup_blue_environment")
       /\ deployment.handled <= 1
       /\ \A i \in DOMAIN log :
            (log[i][1] \in DeployCalls \cup BackupCalls /\ Failure(log[i])) =>
               /\ deployment.handled = 1
               /\ \A j \in DOMAIN log :
                     j > i => log[j][1] \in RollbackCalls \cup {"send_alert"}

RestoreCalls ==
    {"_stop_services", "_restore_database", "_restore_ml_models", "_restore_config",
     "_start_services"}

\* C25: services are stopped and database, models and configuration restored
\* only after the backup passed validation; any failure of the download, the
\* validation, the stop, a restore or the restart starts _emergency_recovery,
\* once, and does not reach the caller; after a failure no further step of
\* restore_from_backup runs, the restart of the services included.
C25_RestoreGuardedAndRecovered ==
    LET log == restoration.log
    IN /\ \A call \in RestoreCalls : GaveBefore(log, "_validate_backup", "true", call)
       /\ restoration.handled <= 1
       /\ \A i \in DOMAIN log :
            (log[i][1] /= "_emergency_recovery" /\ Failure(log[i])) =>
               /\ restoration.handled = 1
               /\ restoration.pc \in {"recovery", "done", "raised"}
               /\ \A j \in DOMAIN log : j > i => log[j][1] = "_emergency_recovery"
       /\ restoration.pc = "raised" => Gave(log, "_emergency_recovery", "raised")
       /\ restoration.pc = "recovery" =>
            restoration.handled = 1 /\ Failure(log[Len(log)])

\* The services were stopped, the restore of the database failed, the
\* emergency recovery ran and the services were never restarted by
\* restore_from_backup.
C25_Witness ==
    LET log == restoration.log
    IN /\ Gave(log, "_validate_backup", "true")
       /\ Gave(log, "_stop_services", "ok")
       /\ Gave(log, "_restore_database", "raised")
       /\ Gave(log, "_emergency_recovery", "ok")
       /\ ~Called(log, "_start_services")
       /\ restoration.pc = "done"

====
